---------------------------- MODULE Spec2Model ----------------------------
(***************************************************************************)
(* Two notebooks: "Non-linear regression" (cells: imports, model, data,    *)
(* fit, parity plot) and "Non-linear equations solver" (one cell).  Each   *)
(* notebook runs in a kernel of its own; a kernel holds the global names   *)
(* the cells have bound so far, and a cell may be run at any time.         *)
(*                                                                         *)
(* Floating-point values are modelled as exact rationals extended with     *)
(* nan, +inf and -inf, combined by the IEEE rules numpy applies (a         *)
(* division by zero yields inf or nan, never an exception).  Rounding is   *)
(* not modelled, and the sign of zero is not tracked.                      *)
(***************************************************************************)
EXTENDS Integers, Sequences, FiniteSets, TLC

-----------------------------------------------------------------------------
(* Bounds of the model *)

\* largest number of observations entered in the data cell
MaxN == 6
\* largest length of an array handed to model() by a direct call
MaxX == 3
\* largest magnitude of a constant a, b and of an unknown y handed to eqns()
MaxC == 2

-----------------------------------------------------------------------------
(* Floating-point values *)

Abs(n) == IF n < 0 THEN -n ELSE n

RECURSIVE GCD(_, _)
GCD(m, n) == IF n = 0 THEN m ELSE GCD(n, m % n)

NaN == [k |-> "nan", n |-> 0, d |-> 1]
PInf == [k |-> "pinf", n |-> 0, d |-> 1]
NInf == [k |-> "ninf", n |-> 0, d |-> 1]

\* the rational n/d (d # 0) in lowest terms with a positive denominator
Fin(n, d) ==
  LET g == GCD(Abs(n), Abs(d))
      s == IF d < 0 THEN -1 ELSE 1
  IN [k |-> "fin", n |-> (s * n) \div g, d |-> (s * d) \div g]

I(n) == Fin(n, 1)

IsFin(v) == v.k = "fin"
IsNaN(v) == v.k = "nan"
IsInf(v) == v.k \in {"pinf", "ninf"}

\* -1, 0, 1; the sign of an infinity is its direction (nan has none)
Sgn(v) ==
  CASE v.k = "pinf" -> 1
    [] v.k = "ninf" -> -1
    [] v.k = "fin" -> (IF v.n > 0 THEN 1 ELSE IF v.n < 0 THEN -1 ELSE 0)
    [] OTHER -> 0

InfOf(s) == IF s > 0 THEN PInf ELSE NInf

FNeg(v) ==
  CASE v.k = "fin" -> Fin(-v.n, v.d)
    [] v.k = "pinf" -> NInf
    [] v.k = "ninf" -> PInf
    [] OTHER -> NaN

FAdd(x, y) ==
  CASE IsNaN(x) \/ IsNaN(y) -> NaN
    [] IsInf(x) /\ IsInf(y) -> (IF x.k = y.k THEN x ELSE NaN)
    [] IsInf(x) -> x
    [] IsInf(y) -> y
    [] OTHER -> Fin(x.n * y.d + y.n * x.d, x.d * y.d)

FSub(x, y) == FAdd(x, FNeg(y))

FMul(x, y) ==
  CASE IsNaN(x) \/ IsNaN(y) -> NaN
    [] IsInf(x) \/ IsInf(y) ->
         (IF Sgn(x) * Sgn(y) = 0 THEN NaN ELSE InfOf(Sgn(x) * Sgn(y)))
    [] OTHER -> Fin(x.n * y.n, x.d * y.d)

FDiv(x, y) ==
  CASE IsNaN(x) \/ IsNaN(y) -> NaN
    [] IsInf(x) /\ IsInf(y) -> NaN
    [] IsInf(x) -> (IF Sgn(y) < 0 THEN FNeg(x) ELSE x)
    [] IsInf(y) -> I(0)
    [] y.n = 0 -> (IF x.n = 0 THEN NaN ELSE InfOf(Sgn(x)))
    [] OTHER -> Fin(x.n * y.d, x.d * y.n)

\* the integer r with r*r <= n < (r+1)*(r+1)
ISqrt(n) == CHOOSE r \in 0..n : r * r <= n /\ n < (r + 1) * (r + 1)

\* x ** 0.5 on a numpy float: nan for a negative number, inf for an infinity
FSqrt(x) ==
  CASE IsNaN(x) -> NaN
    [] IsInf(x) -> PInf
    [] x.n < 0 -> NaN
    [] OTHER -> Fin(ISqrt(x.n), ISqrt(x.d))

\* x ** 2
FSqr(x) == FMul(x, x)

\* x < y as Python compares floats: false whenever a nan is involved
FLt(x, y) ==
  CASE IsNaN(x) \/ IsNaN(y) -> FALSE
    [] x.k = "ninf" -> y.k # "ninf"
    [] y.k = "pinf" -> x.k # "pinf"
    [] x.k = "pinf" \/ y.k = "ninf" -> FALSE
    [] OTHER -> x.n * y.d < y.n * x.d


-----------------------------------------------------------------------------
(* Regression notebook, cell 2: the rate model *)

\* the outcome of a Python call: the exception it raised, or "ok" and a value
Raise(e) == [st |-> e, val |-> <<>>]
Return(v) == [st |-> "ok", val |-> v]

\* RateExpr with C_B and C_C exchanged in the numerator
RateExprSwapped(b, ca, cb, cc) ==
  FDiv(FSub(FMul(b[1], I(cc)), FDiv(I(cb), b[5])),
       FAdd(FAdd(FAdd(I(1), FMul(b[2], I(ca))), FMul(b[3], I(cb))),
            FMul(b[4], I(cc))))

\* the rate expression of model(), for one data point
RateExpr(b, ca, cb, cc) ==
  FDiv(FSub(FMul(b[1], I(cb)), FDiv(I(cc), b[5])),
       FAdd(FAdd(FAdd(I(1), FMul(b[2], I(ca))), FMul(b[3], I(cb))),
            FMul(b[4], I(cc))))

\* ModelLen reading the local computed from the argument
ModelLenLocal(x, ndpts) == Len(x[1])

\* the length of the array model() allocates and loops over: the global
\* ndpts (the local ndtps = len(CA) is never read)
ModelLen(x, ndpts) == ndpts

\* model(x, *parameters) in a kernel whose bound global names are dfn and
\* whose global ndpts has the value ndpts.  x is <<CA, CB, CC>>.
ModelFn(x, parameters, dfn, ndpts) ==
  IF Len(parameters) < 5 THEN Raise("IndexError")
  ELSE IF "ndpts" \notin dfn THEN Raise("NameError")
  ELSE IF ModelLen(x, ndpts) > Len(x[1]) THEN Raise("IndexError")
  ELSE Return([i \in 1..ModelLen(x, ndpts) |->
                 RateExpr(parameters, x[1][i], x[2][i], x[3][i])])

-----------------------------------------------------------------------------
(* Regression notebook, cell 3: the data.  The 13 literal observations,    *)
(* with each concentration replaced by its level (0 low, 1 middle, 2 high) *)
(* and each rate rounded to an integer, so that exact arithmetic stays     *)
(* small.  A data cell of N observations holds the first N (cyclically).   *)

NLit == 13
RateLit == <<9, 4, 5, 0, 3, 14, 3, 4, 13, 9, 0, 11, 3>>
CALit == <<2, 1, 2, 2, 2, 0, 0, 2, 0, 0, 0, 1, 1>>
CBLit == <<2, 0, 2, 0, 0, 1, 0, 1, 2, 2, 0, 2, 1>>
CCLit == <<0, 0, 2, 2, 0, 0, 1, 1, 1, 2, 2, 0, 2>>

Take(lit, n) == [i \in 1..n |-> lit[((i - 1) % NLit) + 1]]

-----------------------------------------------------------------------------
(* Regression notebook, cell 4: the library calls *)

\* number of fitted parameters: len(guess)
NPars == 5

\* the initial guess [1, 0.1, 0.1, 0.1, 1]
GuessLit == <<I(1), Fin(1, 10), Fin(1, 10), Fin(1, 10), I(1)>>

\* parameter vectors the fit may return
PoptSet ==
  { <<I(1), I(0), I(0), I(0), I(1)>>,
    <<I(2), I(1), I(0), I(1), I(2)>>,
    <<I(-1), I(0), I(1), I(0), I(-2)>> }

\* diagonals of the covariance the fit may return when N > P: finite
\* variances, a negative one (round-off), or all inf (singular Jacobian)
PcovSet ==
  { <<I(1), I(1), I(1), I(1), I(1)>>,
    <<I(4), I(0), Fin(1, 4), I(9), I(1)>>,
    <<I(1), I(-1), I(1), I(1), I(4)>>,
    <<PInf, PInf, PInf, PInf, PInf>> }

\* curve_fit(model, xvars, rate_exp, guess, method='lm'), given the outcome r0
\* of its first call of model at the guess, n observations and p parameters:
\* an exception of the callback propagates; 'lm' rejects n < p; the fit may
\* end without convergence (RuntimeError); otherwise it returns popt and pcov,
\* the covariance being all inf when n = p.
CurveFit(r0, n, p) ==
  IF r0.st # "ok" THEN {[st |-> r0.st, popt |-> <<>>, pcov |-> <<>>]}
  ELSE IF n < p THEN {[st |-> "TypeError", popt |-> <<>>, pcov |-> <<>>]}
  ELSE {[st |-> "RuntimeError", popt |-> <<>>, pcov |-> <<>>]}
       \cup {[st |-> "ok", popt |-> po, pcov |-> pc_] :
               po \in PoptSet,
               pc_ \in IF n > p THEN PcovSet
                       ELSE {<<PInf, PInf, PInf, PInf, PInf>>}}

\* tdist.ppf(q, dof): the Student-t quantile, in thousandths; nan when the
\* number of degrees of freedom is not positive
T975 == <<12706, 4303, 3182, 2776, 2571, 2447, 2365, 2306>>
T950 == <<6314, 2920, 2353, 2132, 2015, 1943, 1895, 1860>>
TPpf(q, dof) ==
  IF dof <= 0 THEN NaN
  ELSE IF q = Fin(39, 40) THEN Fin(T975[dof], 1000)
  ELSE IF q = Fin(19, 20) THEN Fin(T950[dof], 1000)
  ELSE NaN

\* Dof with the floor at 1 instead of 0
DofFloorOne(ndpts, npars) == IF ndpts - npars > 1 THEN ndpts - npars ELSE 1

\* dof = max(0, ndpts - npars)
Dof(ndpts, npars) == IF ndpts - npars > 0 THEN ndpts - npars ELSE 0

\* the confidence level of the cell: alpha = 0.05
AlphaLit == Fin(5, 100)

\* tval = tdist.ppf(1.0 - alpha/2.0, dof)
TVal(alpha, dof) == TPpf(FSub(I(1), FDiv(alpha, I(2))), dof)

\* CIRow with the two bounds stored in each other's place
CIRowSwapped(p, var, tval) ==
  LET sigma == FSqrt(var)
  IN <<FAdd(p, FMul(sigma, tval)), FSub(p, FMul(sigma, tval))>>

\* CIRow with the variance used where its square root belongs
CIRowNoSqrt(p, var, tval) ==
  <<FSub(p, FMul(var, tval)), FAdd(p, FMul(var, tval))>>

\* one pass of the confidence-interval loop: [p - sigma*tval, p + sigma*tval]
CIRow(p, var, tval) ==
  LET sigma == FSqrt(var)
  IN <<FSub(p, FMul(sigma, tval)), FAdd(p, FMul(sigma, tval))>>

\* ci_width = ci[:,1] - ci[:,0]
CIWidth(ci) == [i \in 1..Len(ci) |-> FSub(ci[i][2], ci[i][1])]

\* SolnRow with the relative width taken against the size of the estimate
SolnRowAbsRel(p, w) ==
  [value |-> p,
   half |-> FDiv(w, I(2)),
   rel |-> FMul(FDiv(FDiv(w, I(2)), IF Sgn(p) < 0 THEN FNeg(p) ELSE p),
                I(100))]

\* the rows of the dataframe soln: Value, half width, half width rel %
SolnRow(p, w) ==
  [value |-> p,
   half |-> FDiv(w, I(2)),
   rel |-> FMul(FDiv(FDiv(w, I(2)), p), I(100))]

\* the half width the cell reports for estimate p with variance var at dof
\* degrees of freedom, were its confidence level alpha
HalfWidthAt(alpha, p, var, dof) ==
  LET row == CIRow(p, var, TVal(alpha, dof))
  IN SolnRow(p, FSub(row[2], row[1])).half

\* PredictExpr with C_C multiplied by b5 instead of divided
PredictExprMul(b, ca, cb, cc) ==
  FDiv(FSub(FMul(b[1], I(cb)), FMul(I(cc), b[5])),
       FAdd(FAdd(FAdd(I(1), FMul(b[2], I(ca))), FMul(b[3], I(cb))),
            FMul(b[4], I(cc))))

\* the inline rate expression of the residual loop, for one data point
PredictExpr(b, ca, cb, cc) ==
  FDiv(FSub(FMul(b[1], I(cb)), FDiv(I(cc), b[5])),
       FAdd(FAdd(FAdd(I(1), FMul(b[2], I(ca))), FMul(b[3], I(cb))),
            FMul(b[4], I(cc))))

\* SqrResid without the square
SqrResidNoSquare(pred, obs) == FSub(pred, I(obs))

\* sqr_resid = (rate_predict[i] - rate_exp[i])**2
SqrResid(pred, obs) == FSqr(FSub(pred, I(obs)))

-----------------------------------------------------------------------------
(* Equations notebook *)

\* EqnsFn with the first two residuals stored in each other's place
EqnsFnSwapped(U, a, b) ==
  IF Len(U) < 3 THEN Raise("IndexError")
  ELSE Return([k \in 1..Len(U) |->
         CASE k = 2 -> a * U[1] * U[1] + b * U[1] - 10
           [] k = 1 -> b * U[1] * U[1] + U[2] - 12
           [] k = 3 -> b + U[3] - 8
           [] OTHER -> 0])

\* eqns(U) with the globals a and b: a list as long as U
EqnsFn(U, a, b) ==
  IF Len(U) < 3 THEN Raise("IndexError")
  ELSE Return([k \in 1..Len(U) |->
         CASE k = 1 -> a * U[1] * U[1] + b * U[1] - 10
           [] k = 2 -> b * U[1] * U[1] + U[2] - 12
           [] k = 3 -> b + U[3] - 8
           [] OTHER -> 0])

\* Check2 with y1 not squared
Check2Linear(y1, y2, b) == b * y1 + y2 - 12

\* the three expressions of the solution check, written out in the cell
Check1(y1, a, b) == a * y1 * y1 + b * y1 - 10
Check2(y1, y2, b) == b * y1 * y1 + y2 - 12
Check3(y3, b) == b + y3 - 8

\* the initial guess [1, 1, 1]
EqGuessLit == <<1, 1, 1>>

\* vectors fsolve may return for the constants a, b: its starting point, and
\* for each y1 near it the point that zeroes the last two equations, or
\* misses the second by one
SolveCandidates(a, b) ==
  {EqGuessLit} \cup
  {<<y1, 12 - b * y1 * y1 + e, 8 - b>> : y1 \in -MaxC..MaxC, e \in {0, 1}}

\* opt.fsolve(eqns, guess) without full_output, given the outcome r0 of its
\* first call of eqns at the guess: an exception of the callback propagates;
\* otherwise it returns a vector, and when the iteration did not converge
\* (ier # 1) only a RuntimeWarning tells: no exception, no flag
FSolve(r0, a, b) ==
  IF r0.st # "ok" THEN {[st |-> r0.st, x |-> <<>>, ier |-> 0]}
  ELSE {[st |-> "ok", x |-> v, ier |-> 1] :
          v \in {w \in SolveCandidates(a, b) :
                   EqnsFn(w, a, b).val = <<0, 0, 0>>}}
       \cup {[st |-> "ok", x |-> v, ier |-> 5] : v \in SolveCandidates(a, b)}

-----------------------------------------------------------------------------
(* The kernels *)

VARIABLES
  nb,       \* the notebook this kernel runs: "regression" or "equations"
  lit,      \* the literals of the notebook file: n observations; a and b
  defined,  \* the global names bound so far
  env,      \* the values of the global names
  pc,       \* the position in the running cell, "idle" between cells
  k,        \* passes completed of the loop the running cell is in
  status,   \* per cell: "never", "running", "ok" or the exception it raised
  out,      \* what the cells display
  calls,    \* solver calls made by the present run of the fit or solve cell
  outcome,  \* how the solver call of the present run ended ("none" before)
  ret       \* the last direct call of model or eqns, and its outcome

vars == <<nb, lit, defined, env, pc, k, status, out, calls, outcome, ret>>

Cells == {"imports", "model", "data", "fit", "parity", "solve"}

ImportNames == {"np", "pd", "plt", "curve_fit", "tdist"}
DataNames == {"rate_exp", "CA_exp", "CB_exp", "CC_exp", "ndpts"}

Env0 ==
  [ndpts |-> 0, rate_exp |-> <<>>, CA_exp |-> <<>>, CB_exp |-> <<>>,
   CC_exp |-> <<>>, guess |-> <<>>, npars |-> 0, xvars |-> <<>>,
   popt |-> <<>>, pcov |-> <<>>, alpha |-> NaN, dof |-> 0, tval |-> NaN,
   ci |-> <<>>, i |-> 0, sigma |-> NaN, ci_width |-> <<>>, bs |-> <<>>,
   soln |-> <<>>, rate_predict |-> <<>>, ssr |-> NaN, sqr_resid |-> NaN,
   x_parity |-> <<>>, y_parity |-> <<>>,
   a |-> 0, b |-> 0, eq_guess |-> <<>>, eq_soln |-> <<>>, y_solved |-> <<>>]

Out0 ==
  [ssr |-> <<>>, table |-> <<>>, plot |-> <<>>, sol |-> <<>>, chk |-> <<>>,
   warn |-> {}]

Ret0 == [fn |-> "none", x |-> <<>>, p |-> <<>>, r |-> Raise("none")]

Init ==
  /\ nb \in {"regression", "equations"}
  /\ lit \in IF nb = "regression"
             THEN {[n |-> n, a |-> 0, b |-> 0] : n \in 1..MaxN}
             ELSE {[n |-> 0, a |-> a, b |-> b] :
                     a \in -MaxC..MaxC, b \in -MaxC..MaxC}
  /\ defined = {}
  /\ env = Env0
  /\ pc = "idle"
  /\ k = 0
  /\ status = [c \in Cells |-> "never"]
  /\ out = Out0
  /\ calls = 0
  /\ outcome = "none"
  /\ ret = Ret0

\* a cell ends by an uncaught exception e: the kernel shows it and stops
Fail(c, e) ==
  /\ status' = [status EXCEPT ![c] = e]
  /\ pc' = "idle"

Min(m, n) == IF m < n THEN m ELSE n

-----------------------------------------------------------------------------
(* Regression notebook: cells 1, 2, 3 *)

\* cell 1: the imports
RunImports ==
  /\ nb = "regression" /\ pc = "idle"
  /\ defined' = defined \cup ImportNames
  /\ status' = [status EXCEPT !["imports"] = "ok"]
  /\ UNCHANGED <<nb, lit, env, pc, k, out, calls, outcome, ret>>

\* cell 2: def model
RunModelDef ==
  /\ nb = "regression" /\ pc = "idle"
  /\ defined' = defined \cup {"model"}
  /\ status' = [status EXCEPT !["model"] = "ok"]
  /\ UNCHANGED <<nb, lit, env, pc, k, out, calls, outcome, ret>>

\* cell 3: the four literal lists and ndpts = len(rate_exp)
RunData ==
  /\ nb = "regression" /\ pc = "idle"
  /\ defined' = defined \cup DataNames
  /\ env' = [env EXCEPT !.rate_exp = Take(RateLit, lit.n),
                        !.CA_exp = Take(CALit, lit.n),
                        !.CB_exp = Take(CBLit, lit.n),
                        !.CC_exp = Take(CCLit, lit.n),
                        !.ndpts = Len(Take(RateLit, lit.n))]
  /\ status' = [status EXCEPT !["data"] = "ok"]
  /\ UNCHANGED <<nb, lit, pc, k, out, calls, outcome, ret>>

-----------------------------------------------------------------------------
(* Regression notebook: cell 4, statement by statement *)

\* FitGuessValue starting from the parameters of the run before
FitGuessValueWarm(e) == IF e.popt # <<>> THEN e.popt ELSE GuessLit

\* the parameter guesses: guess and npars = len(guess)
FitGuessValue(e) == GuessLit

\* the cell starts (its old output is cleared): the parameter guesses
FitGuess ==
  /\ nb = "regression" /\ pc = "idle"
  /\ env' = [env EXCEPT !.guess = FitGuessValue(env),
                        !.npars = Len(FitGuessValue(env))]
  /\ defined' = defined \cup {"guess", "npars"}
  /\ status' = [status EXCEPT !["fit"] = "running"]
  /\ out' = [out EXCEPT !.ssr = <<>>, !.table = <<>>,
                        !.warn = out.warn \ {"OptimizeWarning"}]
  /\ calls' = 0
  /\ outcome' = "none"
  /\ k' = 0
  /\ pc' = "xvars"
  /\ UNCHANGED <<nb, lit, ret>>

\* xvars = np.array([CA_exp, CB_exp, CC_exp])
FitXvars ==
  /\ pc = "xvars"
  /\ IF {"np", "CA_exp", "CB_exp", "CC_exp"} \subseteq defined
     THEN /\ env' = [env EXCEPT !.xvars = <<env.CA_exp, env.CB_exp, env.CC_exp>>]
          /\ defined' = defined \cup {"xvars"}
          /\ pc' = "curve_fit"
          /\ UNCHANGED status
     ELSE /\ Fail("fit", "NameError")
          /\ UNCHANGED <<env, defined>>
  /\ UNCHANGED <<nb, lit, k, out, calls, outcome, ret>>

\* AfterFitRaise with the exception swallowed: the cell goes on
AfterFitRaiseSwallow(e) ==
  /\ pc' = "ci_init"
  /\ UNCHANGED status

\* AfterFitRaise with the call tried again
AfterFitRaiseRetry(e) ==
  /\ pc' = "curve_fit"
  /\ UNCHANGED status

\* where the cell goes when curve_fit raised e
AfterFitRaise(e) == Fail("fit", e)

\* popt, pcov = curve_fit(model, xvars, rate_exp, guess, method='lm')
FitCurveFit ==
  /\ pc = "curve_fit"
  /\ IF {"curve_fit", "model", "rate_exp"} \subseteq defined
     THEN /\ calls' = calls + 1
          /\ \E o \in CurveFit(ModelFn(env.xvars, env.guess, defined, env.ndpts),
                               Len(env.rate_exp), Len(env.guess)) :
               IF o.st = "ok"
               THEN /\ outcome' = "returned"
                    /\ env' = [env EXCEPT !.popt = o.popt, !.pcov = o.pcov]
                    /\ defined' = defined \cup {"popt", "pcov"}
                    /\ out' = [out EXCEPT !.warn =
                                 IF \E j \in 1..Len(o.pcov) : IsInf(o.pcov[j])
                                 THEN out.warn \cup {"OptimizeWarning"}
                                 ELSE out.warn]
                    /\ pc' = "ci_init"
                    /\ UNCHANGED status
               ELSE /\ outcome' = "raised"
                    /\ AfterFitRaise(o.st)
                    /\ UNCHANGED <<env, defined, out>>
     ELSE /\ Fail("fit", "NameError")
          /\ UNCHANGED <<env, defined, out, calls, outcome>>
  /\ UNCHANGED <<nb, lit, k, ret>>

\* alpha, dof, tval and ci = np.zeros([npars, 2])
FitCIInit ==
  /\ pc = "ci_init"
  /\ env' = [env EXCEPT !.alpha = AlphaLit,
                        !.dof = Dof(env.ndpts, env.npars),
                        !.tval = TVal(AlphaLit, Dof(env.ndpts, env.npars)),
                        !.ci = [j \in 1..env.npars |-> <<I(0), I(0)>>]]
  /\ defined' = defined \cup {"alpha", "dof", "tval", "ci"}
  /\ k' = 0
  /\ pc' = "ci_loop"
  /\ UNCHANGED <<nb, lit, status, out, calls, outcome, ret>>

\* CIPasses counting the parameters only
CIPassesParams(e) == Len(e.popt)

\* the number of passes of: for i,p,var in zip(range(ndpts),popt,np.diag(pcov))
CIPasses(e) == Min(e.ndpts, Min(Len(e.popt), Len(e.pcov)))

\* one pass of the confidence-interval loop
FitCIStep ==
  /\ pc = "ci_loop" /\ k < CIPasses(env)
  /\ env' = [env EXCEPT !.i = k,
                        !.sigma = FSqrt(env.pcov[k + 1]),
                        !.ci[k + 1] = CIRow(env.popt[k + 1], env.pcov[k + 1],
                                            env.tval)]
  /\ defined' = defined \cup {"i", "p", "var", "sigma"}
  /\ k' = k + 1
  /\ UNCHANGED <<nb, lit, pc, status, out, calls, outcome, ret>>

\* TableEnv with the half widths also stored over popt
TableEnvClobber(e) ==
  LET w == CIWidth(e.ci)
  IN [e EXCEPT !.ci_width = w,
               !.bs = e.popt,
               !.soln = [j \in 1..Len(e.popt) |-> SolnRow(e.popt[j], w[j])],
               !.popt = [j \in 1..Len(e.popt) |-> FDiv(w[j], I(2))]]

\* the globals after: ci_width, b1..b5 = popt, and the dataframe soln
TableEnv(e) ==
  LET w == CIWidth(e.ci)
  IN [e EXCEPT !.ci_width = w,
               !.bs = e.popt,
               !.soln = [j \in 1..Len(e.popt) |-> SolnRow(e.popt[j], w[j])]]

\* after the loop: ci_width, b1..b5 = popt, and the dataframe soln
FitTable ==
  /\ pc = "ci_loop" /\ k = CIPasses(env)
  /\ env' = TableEnv(env)
  /\ defined' = defined \cup {"ci_width", "param_names", "b1", "b2", "b3",
                              "b4", "b5", "soln"}
  /\ pc' = "ssr_init"
  /\ UNCHANGED <<nb, lit, k, status, out, calls, outcome, ret>>

\* rate_predict = np.zeros(ndpts); ssr = 0
FitSSRInit ==
  /\ pc = "ssr_init"
  /\ env' = [env EXCEPT !.rate_predict = [j \in 1..env.ndpts |-> I(0)],
                        !.ssr = I(0)]
  /\ defined' = defined \cup {"rate_predict", "ssr"}
  /\ k' = 0
  /\ pc' = "ssr_loop"
  /\ UNCHANGED <<nb, lit, status, out, calls, outcome, ret>>

\* one pass of the residual loop
FitSSRStep ==
  /\ pc = "ssr_loop" /\ k < env.ndpts
  /\ LET pred == PredictExpr(env.bs, env.CA_exp[k + 1], env.CB_exp[k + 1],
                             env.CC_exp[k + 1])
         sq == SqrResid(pred, env.rate_exp[k + 1])
     IN env' = [env EXCEPT !.i = k,
                           !.rate_predict[k + 1] = pred,
                           !.sqr_resid = sq,
                           !.ssr = FAdd(env.ssr, sq)]
  /\ defined' = defined \cup {"i", "sqr_resid"}
  /\ k' = k + 1
  /\ UNCHANGED <<nb, lit, pc, status, out, calls, outcome, ret>>

\* after the loop: print SSR and the table; the cell ends
FitPrint ==
  /\ pc = "ssr_loop" /\ k = env.ndpts
  /\ out' = [out EXCEPT !.ssr = <<env.ssr>>, !.table = env.soln]
  /\ status' = [status EXCEPT !["fit"] = "ok"]
  /\ pc' = "idle"
  /\ UNCHANGED <<nb, lit, defined, env, k, calls, outcome, ret>>

-----------------------------------------------------------------------------
(* Regression notebook: cell 5, the parity plot *)

\* Python's min and max of a non-empty list: a running result replaced by
\* each later item that compares smaller (larger)
RECURSIVE PyMinFrom(_, _, _)
PyMinFrom(s, j, cur) ==
  IF j > Len(s) THEN cur
  ELSE PyMinFrom(s, j + 1, IF FLt(s[j], cur) THEN s[j] ELSE cur)
PyMin(s) == PyMinFrom(s, 2, s[1])

RECURSIVE PyMaxFrom(_, _, _)
PyMaxFrom(s, j, cur) ==
  IF j > Len(s) THEN cur
  ELSE PyMaxFrom(s, j + 1, IF FLt(cur, s[j]) THEN s[j] ELSE cur)
PyMax(s) == PyMaxFrom(s, 2, s[1])

AsFloats(s) == [j \in 1..Len(s) |-> I(s[j])]

\* ParityLine spanning the observed rates only
ParityLineObserved(rate_exp, rate_predict) ==
  << PyMin(AsFloats(rate_exp)), PyMax(AsFloats(rate_exp)) >>

\* [min([min(rate_exp),min(rate_predict)]),max([max(rate_exp),max(rate_predict)])]
ParityLine(rate_exp, rate_predict) ==
  << PyMin(<<PyMin(AsFloats(rate_exp)), PyMin(rate_predict)>>),
     PyMax(<<PyMax(AsFloats(rate_exp)), PyMax(rate_predict)>>) >>

RunParity ==
  /\ nb = "regression" /\ pc = "idle"
  /\ IF {"rate_exp", "rate_predict", "plt"} \subseteq defined
     THEN /\ env' = [env EXCEPT
                       !.x_parity = ParityLine(env.rate_exp, env.rate_predict),
                       !.y_parity = ParityLine(env.rate_exp, env.rate_predict)]
          /\ defined' = defined \cup {"x_parity", "y_parity", "fig", "ax1"}
          /\ out' = [out EXCEPT !.plot =
                       <<[xs |-> AsFloats(env.rate_exp),
                          ys |-> env.rate_predict,
                          line_x |-> ParityLine(env.rate_exp, env.rate_predict),
                          line_y |-> ParityLine(env.rate_exp, env.rate_predict)]>>]
          /\ status' = [status EXCEPT !["parity"] = "ok"]
     ELSE /\ status' = [status EXCEPT !["parity"] = "NameError"]
          /\ out' = [out EXCEPT !.plot = <<>>]
          /\ UNCHANGED <<env, defined>>
  /\ UNCHANGED <<nb, lit, pc, k, calls, outcome, ret>>

-----------------------------------------------------------------------------
(* Equations notebook: its cell, statement by statement *)

\* the cell starts (its old output is cleared): a, b, def eqns, the guess
EqDefs ==
  /\ nb = "equations" /\ pc = "idle"
  /\ env' = [env EXCEPT !.a = lit.a, !.b = lit.b, !.eq_guess = EqGuessLit]
  /\ defined' = defined \cup {"np", "opt", "a", "b", "eqns", "y1_guess",
                              "y2_guess", "y3_guess", "guess"}
  /\ status' = [status EXCEPT !["solve"] = "running"]
  /\ out' = [out EXCEPT !.sol = <<>>, !.chk = <<>>,
                        !.warn = out.warn \ {"RuntimeWarning"}]
  /\ calls' = 0
  /\ outcome' = "none"
  /\ pc' = "fsolve"
  /\ UNCHANGED <<nb, lit, k, ret>>

\* soln = opt.fsolve(eqns, guess)
EqSolve ==
  /\ pc = "fsolve"
  /\ calls' = calls + 1
  /\ \E o \in FSolve(EqnsFn(env.eq_guess, env.a, env.b), env.a, env.b) :
       IF o.st = "ok"
       THEN /\ outcome' = IF o.ier = 1 THEN "converged" ELSE "unconverged"
            /\ env' = [env EXCEPT !.eq_soln = o.x]
            /\ defined' = defined \cup {"soln"}
            /\ out' = [out EXCEPT !.warn = IF o.ier = 1 THEN out.warn
                                           ELSE out.warn \cup {"RuntimeWarning"}]
            /\ pc' = "report"
            /\ UNCHANGED status
       ELSE /\ outcome' = "raised"
            /\ Fail("solve", o.st)
            /\ UNCHANGED <<env, defined, out>>
  /\ UNCHANGED <<nb, lit, k, ret>>

\* y1_solved.. = soln[0..2]; print them; print the three checks
EqReport ==
  /\ pc = "report"
  /\ LET y == <<env.eq_soln[1], env.eq_soln[2], env.eq_soln[3]>>
     IN /\ env' = [env EXCEPT !.y_solved = y]
        /\ out' = [out EXCEPT !.sol = y,
                              !.chk = <<Check1(y[1], env.a, env.b),
                                        Check2(y[1], y[2], env.b),
                                        Check3(y[3], env.b)>>]
  /\ defined' = defined \cup {"y1_solved", "y2_solved", "y3_solved"}
  /\ status' = [status EXCEPT !["solve"] = "ok"]
  /\ pc' = "idle"
  /\ UNCHANGED <<nb, lit, k, calls, outcome, ret>>

-----------------------------------------------------------------------------
(* The notebooks *)

Next ==
  \/ RunImports \/ RunModelDef \/ RunData
  \/ FitGuess \/ FitXvars \/ FitCurveFit \/ FitCIInit \/ FitCIStep
  \/ FitTable \/ FitSSRInit \/ FitSSRStep \/ FitPrint
  \/ RunParity
  \/ EqDefs \/ EqSolve \/ EqReport

Spec == Init /\ [][Next]_vars

-----------------------------------------------------------------------------
(* The two functions called directly, in a kernel where they are defined *)

\* parameter tuples of a direct call: the guess, fitted vectors, one that
\* zeroes a denominator, one with b5 = 0, one too short
ParamSet ==
  {GuessLit} \cup PoptSet \cup
  { <<I(1), I(-1), I(0), I(0), I(1)>>,
    <<I(1), I(0), I(0), I(0), I(0)>>,
    <<I(1), I(0), I(0), I(0)>> }

\* vectors of unknowns of a direct call
USet ==
  [1..3 -> -MaxC..MaxC] \cup {<<1, 1>>, <<1, 1, 1, 1>>}

InitFn ==
  /\ nb \in {"regression", "equations"}
  /\ lit \in IF nb = "regression"
             THEN {[n |-> n, a |-> 0, b |-> 0] : n \in 1..MaxN}
             ELSE {[n |-> 0, a |-> a, b |-> b] :
                     a \in -MaxC..MaxC, b \in -MaxC..MaxC}
  /\ defined \in IF nb = "regression"
                 THEN {ImportNames \cup {"model"},
                       ImportNames \cup {"model"} \cup DataNames}
                 ELSE {{"np", "opt", "a", "b", "eqns"}}
  /\ env = IF nb = "regression"
           THEN IF "ndpts" \in defined
                THEN [Env0 EXCEPT !.rate_exp = Take(RateLit, lit.n),
                                  !.CA_exp = Take(CALit, lit.n),
                                  !.CB_exp = Take(CBLit, lit.n),
                                  !.CC_exp = Take(CCLit, lit.n),
                                  !.ndpts = lit.n]
                ELSE Env0
           ELSE [Env0 EXCEPT !.a = lit.a, !.b = lit.b]
  /\ pc = "idle"
  /\ k = 0
  /\ status = [c \in Cells |-> "never"]
  /\ out = Out0
  /\ calls = 0
  /\ outcome = "none"
  /\ ret = Ret0

\* CallModel with the length of x stored in the global ndpts after the loop
CallModelWritesNdpts ==
  /\ nb = "regression" /\ "model" \in defined
  /\ \E nx \in 1..MaxX, parameters \in ParamSet :
       LET x == <<Take(CALit, nx), Take(CBLit, nx), Take(CCLit, nx)>>
       IN /\ ret' = [fn |-> "model", x |-> x, p |-> parameters,
                     r |-> ModelFn(x, parameters, defined, env.ndpts)]
          /\ env' = [env EXCEPT !.ndpts = nx]
  /\ UNCHANGED <<nb, lit, defined, pc, k, status, out, calls, outcome>>

\* model(x, *parameters), x holding nx observations
CallModel ==
  /\ nb = "regression" /\ "model" \in defined
  /\ \E nx \in 1..MaxX, parameters \in ParamSet :
       LET x == <<Take(CALit, nx), Take(CBLit, nx), Take(CCLit, nx)>>
       IN ret' = [fn |-> "model", x |-> x, p |-> parameters,
                  r |-> ModelFn(x, parameters, defined, env.ndpts)]
  /\ UNCHANGED <<nb, lit, defined, env, pc, k, status, out, calls, outcome>>

\* eqns(U)
CallEqns ==
  /\ nb = "equations" /\ "eqns" \in defined
  /\ \E U \in USet :
       ret' = [fn |-> "eqns", x |-> U, p |-> <<>>,
               r |-> EqnsFn(U, env.a, env.b)]
  /\ UNCHANGED <<nb, lit, defined, env, pc, k, status, out, calls, outcome>>

NextFn == CallModel \/ CallEqns

SpecFn == InitFn /\ [][NextFn]_vars

-----------------------------------------------------------------------------
(* Properties of the rate model called directly *)

\* the denominator of the rate law at observation i of x
RateDen(b, x, i) ==
  FAdd(I(1), FAdd(FMul(b[2], I(x[1][i])),
                  FAdd(FMul(b[3], I(x[2][i])), FMul(b[4], I(x[3][i])))))

\* b5 # 0 and no observation of x zeroes the denominator
ValidModelInput(b, x) ==
  /\ Len(b) >= 5
  /\ Sgn(b[5]) # 0
  /\ \A i \in 1..Len(x[1]) : Sgn(RateDen(b, x, i)) # 0

\* C1: every entry i that model(x, b1..b5) returns for valid parameters is
\* the rate law at observation i: a finite r with
\* r * (1 + b2*CA[i] + b3*CB[i] + b4*CC[i]) * b5 = b1*b5*CB[i] - CC[i];
\* and called on as many observations as the data cell holds, it returns
\* an entry for each of them.
C1_RateLaw ==
  (ret.fn = "model" /\ ValidModelInput(ret.p, ret.x)) =>
    /\ ret.r.st = "ok" =>
         \A i \in 1..Len(ret.r.val) :
           /\ IsFin(ret.r.val[i])
           /\ FMul(FMul(ret.r.val[i], RateDen(ret.p, ret.x, i)), ret.p[5])
                = FSub(FMul(FMul(ret.p[1], ret.p[5]), I(ret.x[2][i])),
                       I(ret.x[3][i]))
    /\ ("ndpts" \in defined /\ Len(ret.x[1]) = env.ndpts) =>
         (ret.r.st = "ok" /\ Len(ret.r.val) = env.ndpts)

\* a call on the whole data set returned a rate that is not an integer
C1_Witness ==
  /\ ret.fn = "model" /\ ValidModelInput(ret.p, ret.x) /\ ret.r.st = "ok"
  /\ Len(ret.x[1]) = env.ndpts /\ Len(ret.r.val) >= 2
  /\ \E i \in 1..Len(ret.r.val) : ret.r.val[i].d > 1 /\ ret.x[3][i] # 0

\* C2: for valid inputs (in a kernel whose data cell has run), model returns
\* as many entries as x holds observations, whatever that number is.
C2_LengthIsInputLength ==
  (ret.fn = "model" /\ "ndpts" \in defined /\ ValidModelInput(ret.p, ret.x)) =>
    (ret.r.st = "ok" /\ Len(ret.r.val) = Len(ret.x[1]))

-----------------------------------------------------------------------------
(* Properties of the residual function called directly *)

\* C3: for constants a, b and U = (y1, y2, y3), eqns(U) returns the list
\* (y1*(a*y1 + b) - 10, b*y1^2 + y2 - 12, y3 + b - 8), in that order.
C3_Residuals ==
  (ret.fn = "eqns" /\ Len(ret.x) = 3) =>
    /\ ret.r.st = "ok"
    /\ Len(ret.r.val) = 3
    /\ ret.r.val[1] + 10 = ret.x[1] * (env.a * ret.x[1] + env.b)
    /\ ret.r.val[2] + 12 - ret.x[2] = env.b * (ret.x[1] * ret.x[1])
    /\ ret.r.val[3] = ret.x[3] - (8 - env.b)

\* eqns returned three different residuals for constants other than 0 and 1
C3_Witness ==
  /\ ret.fn = "eqns" /\ Len(ret.x) = 3 /\ ret.r.st = "ok"
  /\ env.a = 2 /\ env.b = -1 /\ ret.x = <<2, 1, -2>>
  /\ ret.r.val = <<-4, -15, -11>>

-----------------------------------------------------------------------------
(* Properties of the regression notebook *)

Exceptions == {"NameError", "IndexError", "TypeError", "RuntimeError"}

\* the positions of the fit cell after curve_fit has returned
PostFit == {"ci_init", "ci_loop", "ssr_init", "ssr_loop"}

\* C4: row i of the displayed table is [popt[i], h, h / popt[i] * 100] with
\* h = sqrt(pcov[i][i]) * t, t the 0.975 Student-t quantile at
\* max(0, N - P) degrees of freedom; and h is half of upper minus lower of
\* the stored interval.
C4_CITable ==
  out.table # <<>> =>
    /\ Len(out.table) = NPars
    /\ \A i \in 1..NPars :
         LET t == TPpf(Fin(39, 40),
                       IF env.ndpts > NPars THEN env.ndpts - NPars ELSE 0)
             h == FMul(FSqrt(env.pcov[i]), t)
         IN /\ out.table[i].value = env.popt[i]
            /\ out.table[i].half = h
            /\ out.table[i].rel = FMul(FDiv(h, env.popt[i]), I(100))
            /\ FDiv(FSub(env.ci[i][2], env.ci[i][1]), I(2)) = h

\* a table is displayed whose first half width is 2 * t(0.975, 1)
C4_Witness ==
  /\ out.table # <<>> /\ env.dof = 1
  /\ env.pcov[1] = I(4)
  /\ out.table[1].half = Fin(25412, 1000)

\* C5: with as many observations as parameters, dof is 0, nothing after the
\* fit raises, and every half width and relative width displayed is not a
\* finite number.
C5_Degenerate ==
  (nb = "regression" /\ lit.n = NPars) =>
    /\ (pc \in {"ci_loop", "ssr_init", "ssr_loop"} \/ status["fit"] = "ok")
         => env.dof = 0
    /\ outcome = "returned" => status["fit"] \in {"running", "ok"}
    /\ out.table # <<>> =>
         \A i \in 1..Len(out.table) :
           ~IsFin(out.table[i].half) /\ ~IsFin(out.table[i].rel)

\* the fit cell ran to its end on 5 observations and displays nan
C5_Witness ==
  /\ lit.n = NPars /\ status["fit"] = "ok" /\ env.dof = 0
  /\ Len(out.table) = NPars /\ IsNaN(out.table[1].half)

C8_SolverOnce ==
  /\ calls <= 1
  /\ (status["fit"] = "ok" \/ status["solve"] = "ok") => calls = 1
  /\ outcome # "none" => calls = 1
  /\ pc = "curve_fit" => (calls = 0 /\ env.guess = GuessLit)
  /\ pc = "fsolve" => (calls = 0 /\ env.eq_guess = EqGuessLit)
  /\ outcome = "raised" => pc = "idle"

\* the fit did not converge: one call was made and the cell has stopped
C8_Witness ==
  /\ status["fit"] = "RuntimeError" /\ outcome = "raised"
  /\ calls = 1 /\ pc = "idle"

\* a step of the parity cell
ParityStep ==
  /\ pc = "idle"
  /\ \/ out'.plot # out.plot
     \/ status'["parity"] # status["parity"]
     \/ env'.x_parity # env.x_parity

\* C9: popt and pcov change only in the curve_fit step; the steps after it
\* and the parity cell leave popt, pcov, the guess and the observations as
\* they are.
C9_Frame ==
  /\ [][(env'.popt # env.popt \/ env'.pcov # env.pcov) => pc = "curve_fit"]_vars
  /\ [][(pc \in PostFit \/ ParityStep) =>
          /\ env'.popt = env.popt /\ env'.pcov = env.pcov
          /\ env'.guess = env.guess
          /\ env'.rate_exp = env.rate_exp /\ env'.CA_exp = env.CA_exp
          /\ env'.CB_exp = env.CB_exp /\ env'.CC_exp = env.CC_exp]_vars

\* table and plot are displayed, and popt is a vector the fit returned
C9_Witness ==
  /\ status["fit"] = "ok" /\ out.table # <<>> /\ out.plot # <<>>
  /\ env.popt \in PoptSet /\ env.guess = GuessLit

\* C10: every predicted rate the residual loop has stored is the entry of
\* model(xvars, *popt) at the same observation; when the cell has ended, all
\* of them are.
C10_RoundTrip ==
  (nb = "regression" /\ (status["fit"] = "ok" \/ pc = "ssr_loop")) =>
    LET m == ModelFn(env.xvars, env.popt, defined, env.ndpts)
        done == IF status["fit"] = "ok" THEN env.ndpts ELSE k
    IN /\ m.st = "ok"
       /\ Len(env.rate_predict) = Len(m.val)
       /\ \A i \in 1..done : env.rate_predict[i] = m.val[i]

\* the cell ended with a predicted rate that is not an integer
C10_Witness ==
  /\ status["fit"] = "ok" /\ env.ndpts > NPars
  /\ \E i \in 1..env.ndpts :
       env.rate_predict[i].d > 1 /\ env.CC_exp[i] # 0

-----------------------------------------------------------------------------
(* Properties of the equations notebook *)

\* C6: when fsolve does not converge, the solve cell ends as a failure and
\* reports no y1, y2, y3.
C6_NonConvergenceIsFailure ==
  outcome = "unconverged" => (out.sol = <<>> /\ status["solve"] # "ok")

-----------------------------------------------------------------------------
(* Properties of the parity plot *)

\* x <= y for finite x and y
Leq(x, y) == IsFin(x) /\ IsFin(y) /\ x.n * y.d <= y.n * x.d

\* C11: the reference line of a displayed plot has the same two endpoints
\* [lo, hi] on both axes; lo and hi are rates of the plot (observed or
\* predicted), and both coordinates of every plotted point lie in [lo, hi].
C11_ParityLine ==
  out.plot # <<>> =>
    LET p == out.plot[1]
        lo == p.line_x[1]
        hi == p.line_x[2]
        rates == {p.xs[i] : i \in 1..Len(p.xs)} \cup
                 {p.ys[i] : i \in 1..Len(p.ys)}
    IN /\ Len(p.line_x) = 2 /\ p.line_y = p.line_x
       /\ Len(p.xs) = Len(p.ys)
       /\ lo \in rates /\ hi \in rates
       /\ \A v \in rates : Leq(lo, v) /\ Leq(v, hi)

\* a plot whose lower endpoint is a predicted rate below every observed one
C11_Witness ==
  /\ out.plot # <<>>
  /\ \E i \in 1..Len(out.plot[1].ys) :
       /\ out.plot[1].ys[i] = out.plot[1].line_x[1]
       /\ \A j \in 1..Len(out.plot[1].xs) :
            ~Leq(out.plot[1].xs[j], out.plot[1].line_x[1])

-----------------------------------------------------------------------------
(* Properties of the confidence level *)

\* C12: for the fit a displayed table belongs to (dof > 0), every half width
\* is the one computed at alpha = 0.05, and the half width the same estimates
\* and variances give at alpha = 0.10 is not larger.
C12_AlphaMonotone ==
  (out.table # <<>> /\ env.dof > 0) =>
    \A i \in 1..Len(out.table) :
      LET h05 == HalfWidthAt(Fin(5, 100), env.popt[i], env.pcov[i], env.dof)
          h10 == HalfWidthAt(Fin(10, 100), env.popt[i], env.pcov[i], env.dof)
      IN /\ out.table[i].half = h05
         /\ ~FLt(h05, h10)
         /\ (IsFin(h05) /\ IsFin(h10)) => Leq(h10, h05)

\* a displayed half width that alpha = 0.10 makes strictly smaller
C12_Witness ==
  /\ out.table # <<>> /\ env.dof = 1 /\ env.pcov[1] = I(4)
  /\ out.table[1].half = Fin(25412, 1000)
  /\ HalfWidthAt(Fin(10, 100), env.popt[1], env.pcov[1], env.dof)
       = Fin(12628, 1000)

-----------------------------------------------------------------------------
(* Properties of the two functions as callees *)

\* C13: a call of model or of eqns changes nothing but its own result: the
\* globals (data, ndpts, a, b, guess), the bound names and the displays stay
\* as they are; so the last call, made again with the same arguments, would
\* return the same result.
C13_Pure ==
  /\ [][ret' # ret =>
          /\ env' = env /\ defined' = defined /\ lit' = lit
          /\ status' = status /\ out' = out]_vars
  /\ [](ret.fn = "model" =>
          ret.r = ModelFn(ret.x, ret.p, defined, env.ndpts))
  /\ [](ret.fn = "eqns" => ret.r = EqnsFn(ret.x, env.a, env.b))

\* model has returned in a kernel holding data of another length than x
C13_Witness ==
  /\ ret.fn = "model" /\ ret.r.st = "ok"
  /\ "ndpts" \in defined /\ env.ndpts = 2 /\ Len(ret.x[1]) = 3
  /\ env.rate_exp = Take(RateLit, 2)

-----------------------------------------------------------------------------
(* The confidence-interval statements on their own: entered with any number *)
(* of observations and any popt, pcov of NPars entries (the fit itself      *)
(* refuses fewer observations than parameters)                              *)

InitLoop ==
  /\ nb = "regression"
  /\ lit \in {[n |-> n, a |-> 0, b |-> 0] : n \in 1..MaxN}
  /\ defined = ImportNames \cup {"model"} \cup DataNames
                 \cup {"guess", "npars", "xvars", "popt", "pcov"}
  /\ \E po \in PoptSet, pv \in PcovSet :
       env = [Env0 EXCEPT !.rate_exp = Take(RateLit, lit.n),
                          !.CA_exp = Take(CALit, lit.n),
                          !.CB_exp = Take(CBLit, lit.n),
                          !.CC_exp = Take(CCLit, lit.n),
                          !.ndpts = lit.n,
                          !.guess = GuessLit,
                          !.npars = Len(GuessLit),
                          !.xvars = <<Take(CALit, lit.n), Take(CBLit, lit.n),
                                      Take(CCLit, lit.n)>>,
                          !.popt = po,
                          !.pcov = pv]
  /\ pc = "ci_init"
  /\ k = 0
  /\ status = [c \in Cells |-> IF c = "fit" THEN "running"
                               ELSE IF c = "parity" THEN "never" ELSE "ok"]
  /\ out = Out0
  /\ calls = 1
  /\ outcome = "returned"
  /\ ret = Ret0

NextLoop == FitCIInit \/ FitCIStep \/ FitTable

SpecLoop == InitLoop /\ [][NextLoop]_vars

\* the interval [p - sqrt(var)*t, p + sqrt(var)*t]
Interval(p, var, t) ==
  <<FSub(p, FMul(FSqrt(var), t)), FAdd(p, FMul(FSqrt(var), t))>>

\* C16: the confidence-interval loop makes exactly min(N, P) passes; pass i
\* (from 0) writes row i of the P-row array ci, and only that row, from
\* popt[i] and pcov[i][i]; so with N >= P every row is written once, and
\* with N < P rows N..P-1 keep their initial [0, 0].
C16_CILoop ==
  /\ [](pc = "ci_loop" =>
          /\ Len(env.ci) = NPars
          /\ k <= env.ndpts /\ k <= NPars
          /\ \A j \in 1..k :
               env.ci[j] = Interval(env.popt[j], env.pcov[j], env.tval)
          /\ \A j \in (k + 1)..NPars : env.ci[j] = <<I(0), I(0)>>)
  /\ [](pc = "ssr_init" =>
          /\ k = (IF env.ndpts < NPars THEN env.ndpts ELSE NPars)
          /\ \A j \in 1..k :
               env.ci[j] = Interval(env.popt[j], env.pcov[j], env.tval)
          /\ \A j \in (k + 1)..NPars : env.ci[j] = <<I(0), I(0)>>)
  /\ [][(pc = "ci_loop" /\ pc' = "ci_loop") =>
          /\ k' = k + 1
          /\ env'.i = k /\ env'.i < NPars
          /\ \A j \in 1..NPars : j # k + 1 => env'.ci[j] = env.ci[j]]_vars
  /\ [][(pc = "ci_loop" /\ pc' = "ssr_init") =>
          k = (IF env.ndpts < NPars THEN env.ndpts ELSE NPars)]_vars

\* the loop has ended on 3 observations: 3 rows written, 2 still zero
C16_Witness ==
  /\ pc = "ssr_init" /\ env.ndpts = 3 /\ k = 3
  /\ env.ci[4] = <<I(0), I(0)>> /\ env.ci[5] = <<I(0), I(0)>>
  /\ env.popt[1] = I(2) /\ env.ci[1] = <<NaN, NaN>>

-----------------------------------------------------------------------------
(* Properties of the residual summary *)

\* (p - o)^2 expanded: p*p - 2*p*o + o*o
Squared(p, o) ==
  FAdd(FSub(FMul(p, p), FMul(I(2 * o), p)), I(o * o))

\* the sum of the squared residuals of the first n observations
RECURSIVE SumSq(_, _, _)
SumSq(pred, obs, n) ==
  IF n = 0 THEN I(0)
  ELSE FAdd(SumSq(pred, obs, n - 1), Squared(pred[n], obs[n]))

\* C17: the accumulator ssr starts at 0; after k passes of the residual loop
\* it is the sum of the first k squared residuals; a pass handles one more
\* observation and never lowers it; it is never negative; and the SSR
\* displayed is the sum over all N observations.
C17_SSR ==
  /\ [](pc = "ssr_loop" =>
          /\ k <= env.ndpts
          /\ env.ssr = SumSq(env.rate_predict, env.rate_exp, k)
          /\ k = 0 => env.ssr = I(0)
          /\ Leq(I(0), env.ssr))
  /\ [](out.ssr # <<>> =>
          /\ out.ssr[1] = SumSq(env.rate_predict, env.rate_exp, env.ndpts)
          /\ Len(env.rate_predict) = Len(env.rate_exp)
          /\ Leq(I(0), out.ssr[1]))
  /\ [][(pc = "ssr_loop" /\ pc' = "ssr_loop") =>
          /\ k' = k + 1
          /\ Leq(env.ssr, env'.ssr)
          /\ env'.ssr = FAdd(env.ssr, Squared(env'.rate_predict[k'],
                                              env.rate_exp[k']))]_vars

\* an SSR over 6 observations that is not an integer is displayed
C17_Witness ==
  /\ out.ssr # <<>> /\ env.ndpts = 6 /\ status["fit"] = "ok"
  /\ out.ssr[1].d > 1 /\ out.ssr[1].n > 0

-----------------------------------------------------------------------------
(* The regression kernel with a cell that calls model directly *)

InitOrder ==
  /\ nb = "regression"
  /\ lit \in {[n |-> n, a |-> 0, b |-> 0] : n \in 1..MaxN}
  /\ defined = {}
  /\ env = Env0
  /\ pc = "idle"
  /\ k = 0
  /\ status = [c \in Cells |-> "never"]
  /\ out = Out0
  /\ calls = 0
  /\ outcome = "none"
  /\ ret = Ret0

\* a cell that calls model(x, *guess) or model(x, *guess[:4]), run between
\* cells, x holding nx observations
RunModelCall ==
  /\ nb = "regression" /\ pc = "idle" /\ "model" \in defined
  /\ \E nx \in 1..MaxX, parameters \in {GuessLit, Take(GuessLit, 4)} :
       LET x == <<Take(CALit, nx), Take(CBLit, nx), Take(CCLit, nx)>>
       IN ret' = [fn |-> "model", x |-> x, p |-> parameters,
                  r |-> ModelFn(x, parameters, defined, env.ndpts)]
  /\ UNCHANGED <<nb, lit, defined, env, pc, k, status, out, calls, outcome>>

NextOrder ==
  \/ RunImports \/ RunModelDef \/ RunData
  \/ FitGuess \/ FitXvars \/ FitCurveFit \/ FitCIInit \/ FitCIStep
  \/ FitTable \/ FitSSRInit \/ FitSSRStep \/ FitPrint
  \/ RunParity \/ RunModelCall

SpecOrder == InitOrder /\ [][NextOrder]_vars

Ran(c) == status[c] = "ok"

\* C18: once imports, model definition and data entry have run, the fit cell
\* never ends by NameError, and once the fit cell has run to its end the
\* parity cell does not; the fit cell ends otherwise than by NameError only
\* after the three cells before it, the parity cell run before the fit cell
\* ends by NameError; the model's loop bound is the global ndpts of the data
\* cell, so a call of model (with its five parameters) before the data cell
\* has run ends by NameError and a successful call returns ndpts values.
C18_CellOrder ==
  /\ [][(Ran("imports") /\ Ran("model") /\ Ran("data")
           /\ status'["fit"] # status["fit"])
          => status'["fit"] # "NameError"]_vars
  /\ [][RunParity =>
          /\ status["fit"] = "ok" => status'["parity"] = "ok"
          /\ status["fit"] = "never" => status'["parity"] = "NameError"]_vars
  /\ [](status["fit"] \notin {"never", "running", "NameError"}
          => Ran("imports") /\ Ran("model") /\ Ran("data"))
  /\ [](status["parity"] = "ok" => status["fit"] \notin {"never", "NameError"})
  /\ [](status["data"] = "never" <=> "ndpts" \notin defined)
  /\ [][(ret' # ret /\ Len(ret'.p) = NPars) =>
          /\ ret'.fn = "model"
          /\ status["data"] = "never" <=> ret'.r.st = "NameError"
          /\ ret'.r.st = "ok" =>
               /\ Len(ret'.r.val) = env.ndpts
               /\ Len(ret'.x[1]) >= env.ndpts
          /\ (status["data"] = "ok" /\ Len(ret'.x[1]) < env.ndpts)
               => ret'.r.st = "IndexError"]_vars

\* the model, the fit cell and the parity cell have each been run before the
\* data cell, and each ended by NameError
C18_Witness ==
  /\ Ran("imports") /\ Ran("model") /\ status["data"] = "never"
  /\ status["fit"] = "NameError" /\ status["parity"] = "NameError"
  /\ ret.fn = "model" /\ Len(ret.p) = NPars /\ ret.r.st = "NameError"

-----------------------------------------------------------------------------
(* The fit cell run again and again after cells 1, 2, 3.  The solver is a   *)
(* deterministic routine: lit.fit is what it computes from the model, the  *)
(* data of the notebook and the literal guess.                             *)

DataEnv(n) ==
  [Env0 EXCEPT !.rate_exp = Take(RateLit, n), !.CA_exp = Take(CALit, n),
               !.CB_exp = Take(CBLit, n), !.CC_exp = Take(CCLit, n),
               !.ndpts = n]

DataX(n) == <<Take(CALit, n), Take(CBLit, n), Take(CCLit, n)>>

InitRerun ==
  /\ nb = "regression"
  /\ defined = ImportNames \cup {"model"} \cup DataNames
  /\ lit \in {[n |-> n, a |-> 0, b |-> 0, fit |-> o] :
                n \in 1..MaxN,
                o \in UNION {CurveFit(ModelFn(DataX(m), GuessLit, defined, m),
                                      m, Len(GuessLit)) : m \in 1..MaxN}}
  /\ lit.fit \in CurveFit(ModelFn(DataX(lit.n), GuessLit, defined, lit.n),
                          lit.n, Len(GuessLit))
  /\ env = DataEnv(lit.n)
  /\ pc = "idle"
  /\ k = 0
  /\ status = [c \in Cells |->
                 IF c \in {"imports", "model", "data"} THEN "ok" ELSE "never"]
  /\ out = Out0
  /\ calls = 0
  /\ outcome = "none"
  /\ ret = Ret0

\* the call of curve_fit: with the arguments of the first run it ends as in
\* the first run
FitCurveFitSame ==
  /\ FitCurveFit
  /\ (env.guess = GuessLit /\ env.xvars = DataX(lit.n)) =>
       IF lit.fit.st = "ok"
       THEN /\ outcome' = "returned"
            /\ env'.popt = lit.fit.popt /\ env'.pcov = lit.fit.pcov
       ELSE status'["fit"] = lit.fit.st

NextRerun ==
  \/ FitGuess \/ FitXvars \/ FitCurveFitSame \/ FitCIInit \/ FitCIStep
  \/ FitTable \/ FitSSRInit \/ FitSSRStep \/ FitPrint

SpecRerun == InitRerun /\ [][NextRerun]_vars

\* the fit cell is running for at least the second time
Rerunning == pc # "idle" /\ "ssr" \in defined

\* C19: every run of the fit cell calls the solver with the same arguments
\* (the literal guess, the unchanged data); a run after the first leaves
\* popt, pcov and the table as the run before left them, and ends as the run
\* before ended; the rate_predict and SSR a run ends with are those of the
\* N observations at popt, whatever the run before left in them.
C19_Idempotent ==
  /\ [](pc = "curve_fit" =>
          /\ env.guess = GuessLit /\ env.npars = Len(GuessLit) /\ calls = 0
          /\ env.xvars = DataX(lit.n) /\ env.rate_exp = Take(RateLit, lit.n))
  /\ [][Rerunning =>
          /\ "popt" \in defined => env'.popt = env.popt /\ env'.pcov = env.pcov
          /\ pc' = "ssr_init" => env'.soln = env.soln /\ env'.ci = env.ci
          /\ pc' = "idle" =>
               /\ status'["fit"] = "ok"
               /\ out'.table = env.soln /\ out'.ssr = <<env.ssr>>]_vars
  /\ [][(pc = "idle" /\ pc' # "idle") =>
          /\ status["fit"] \in {"never", lit.fit.st}
          /\ out'.table = <<>> /\ out'.ssr = <<>>]_vars
  /\ [](status["fit"] \notin {"never", "running"} => status["fit"] = lit.fit.st)
  /\ [](status["fit"] = "ok" =>
          /\ env.popt = lit.fit.popt /\ env.pcov = lit.fit.pcov
          /\ Len(env.rate_predict) = lit.n
          /\ \A i \in 1..lit.n :
               env.rate_predict[i] =
                 RateExpr(env.popt, env.CA_exp[i], env.CB_exp[i], env.CC_exp[i])
          /\ env.ssr = SumSq(env.rate_predict, env.rate_exp, lit.n)
          /\ out.ssr = <<env.ssr>>
          /\ out.table = env.soln /\ Len(env.soln) = NPars
          /\ \A j \in 1..NPars :
               /\ env.soln[j].value = env.popt[j]
               /\ env.soln[j].half =
                    HalfWidthAt(AlphaLit, env.popt[j], env.pcov[j],
                                Dof(lit.n, NPars)))

\* a later run has recomputed the table and is about to reset an SSR of the
\* run before that is not zero
C19_Witness ==
  /\ pc = "ssr_init" /\ Rerunning /\ env.ndpts = 6
  /\ env.ssr.n > 0 /\ env.rate_predict[6] # I(0)
  /\ env.pcov[1] = I(4)
  /\ env.soln[1].half = HalfWidthAt(AlphaLit, env.popt[1], I(4), 1)
  /\ IsFin(env.soln[1].half)

-----------------------------------------------------------------------------
(* Properties of the verification printout *)

\* C20: whenever the solution and its checks are displayed, the three
\* "Eqn k should be 0" values are the three components of eqns(soln) at the
\* same a and b, so the checks are all zero exactly when the residual
\* function is zero at the solution displayed.
C20_ChecksAreResiduals ==
  out.chk # <<>> =>
    LET r == EqnsFn(env.eq_soln, env.a, env.b)
    IN /\ out.sol = <<env.eq_soln[1], env.eq_soln[2], env.eq_soln[3]>>
       /\ r.st = "ok"
       /\ Len(out.chk) = 3 /\ Len(r.val) = 3
       /\ \A j \in 1..3 : out.chk[j] = r.val[j]
       /\ (\A j \in 1..3 : out.chk[j] = 0) <=> r.val = <<0, 0, 0>>
       /\ env.a = lit.a /\ env.b = lit.b

\* checks displayed for a solution the solver did not converge to, the second
\* one not zero
C20_Witness ==
  /\ out.chk # <<>> /\ outcome = "unconverged" /\ status["solve"] = "ok"
  /\ out.chk[2] # 0 /\ env.b # 0 /\ out.sol[1] \notin {0, 1}

-----------------------------------------------------------------------------
(* Properties of the stored intervals and the table columns *)

\* x <= y as Python compares floats: false whenever a nan is involved
FLe(x, y) == ~IsNaN(x) /\ ~IsNaN(y) /\ ~FLt(y, x)

\* what is said of row j of a displayed table: the interval stored in ci is
\* symmetric about the estimate, the half width is not negative, the relative
\* width has the sign of the estimate (and is zero with the half width), and
\* is not finite (inf, or nan for a zero half width) when the estimate is 0
SymmetricRow(j) ==
  LET p == env.popt[j]
      lo == env.ci[j][1]
      hi == env.ci[j][2]
      row == out.table[j]
  IN /\ row.value = p
     /\ FLe(lo, p) /\ FLe(p, hi)
     /\ FDiv(FAdd(lo, hi), I(2)) = p
     /\ FLe(I(0), row.half)
     /\ p # I(0) => Sgn(row.rel) = Sgn(p) * Sgn(row.half)
     /\ (Sgn(p) < 0 /\ Sgn(row.half) > 0) => FLt(row.rel, I(0))
     /\ p = I(0) => ~IsFin(row.rel)

=============================================================================
